---- MODULE Spec2Model ----
(***************************************************************************)
(* A model of the crawl-and-extract pipeline of scraper/realtor_scraper.py *)
(* and scraper/zillow_scraper.py: the retrying fetcher, URL discovery on   *)
(* a search page, and the run_scrape orchestration of both scrapers.       *)
(*                                                                         *)
(* Durations are integers in tenths of a second (3.0 s is 30).             *)
(***************************************************************************)
EXTENDS Integers, Sequences, FiniteSets, TLC

\* ------------------------------------------------------------------ bounds
\* Largest max_retries a direct call of fetch_with_retries is given.
MaxRetriesBound == 3
\* Largest max_total given to run_scrape.
MaxTotalBound == 2
\* Largest max_per_search given to run_scrape.
MaxPerBound == 2
\* Number of seed URLs given to run_scrape.
NumSeeds == 2
\* Number of distinct listing ids that occur on the modelled pages.
NumIds == 3
\* Largest limit given to a direct call of collect_listing_urls_from_search.
MaxLimit == 2
\* Longest itemListElement / anchor list of a generated search page.
MaxItems == 2
\* Largest number of JSON-LD objects on a generated listing page.
MaxObjs == 2

\* ------------------------------------------------------- program constants
DEFAULT_MAX_RETRIES == 5
BASE_BACKOFF == 30
DefaultMaxTotal == 12

VARIABLES
    \* --- one call of fetch_with_retries
    fpc,          \* "idle" | "loop" | "done" | "raised"
    maxRetries,   \* the max_retries argument
    attempt,      \* the loop variable (0 before the first iteration)
    requests,     \* session.get calls issued by this call
    trace,        \* kind and status of every outcome this call has got, in order
    sleeps,       \* time.sleep calls that returned
    lastOutcome,  \* what the last session.get produced
    lastWait,     \* the wait computed in the last iteration, NoWait if none
    fresult,      \* the returned value: NotReturned, None or a response
    earlier,      \* session.get calls issued by the call before this one
    \* --- one call of run_scrape
    site,         \* "realtor" | "zillow" | "none"
    max_total_arg,  \* the max_total argument (0 stands for None or 0)
    pc,           \* position in run_scrape
    max_total,
    max_per_search,
    seedIdx,      \* index of the seed being processed
    queue,        \* all_listing_urls / collected_urls
    idx,          \* index in the queue of the listing being processed
    leads,
    exposed,      \* the URLs collect_listing_urls_from_search has exposed so far
    served,       \* the body each detail page was served with
    seedLog,      \* for each seed page fetched: the seed and whether the queue was full
    tasks,        \* for each listing task started: its URL, the leads held then,
                  \* and the pacing sleeps before and after it
    \* --- one direct call of collect_listing_urls_from_search
    dpc,          \* "idle" | "returned" | "raised"
    dsite,
    dlimit,
    dpage,
    dresult,
    dread,        \* whether this call got the content of the page
    dprev,        \* the call made before this one on the same page, NoCall if none
    dheld,        \* the largest number of URLs found held during this call
    \* --- one direct call of a record extractor on a listing page
    xpc,          \* "idle" | "returned"
    xsite,
    xpage,        \* the structured data and the DOM of the listing page
    xrecord,      \* the record returned
    xsecondary    \* agent profile pages this call opened

fetchVars == <<fpc, maxRetries, attempt, requests, trace, sleeps, lastOutcome, lastWait, fresult,
              earlier>>
runVars == <<site, max_total_arg, pc, max_total, max_per_search, seedIdx, queue, idx, leads, exposed, served,
            seedLog, tasks>>
discVars == <<dpc, dsite, dlimit, dpage, dresult, dread, dprev, dheld>>
extVars == <<xpc, xsite, xpage, xrecord, xsecondary>>
vars == <<fetchVars, runVars, discVars, extVars>>

\* ----------------------------------------------------------------- helpers
Range(s) == {s[i] : i \in 1..Len(s)}

Min(a, b) == IF a <= b THEN a ELSE b

Max(a, b) == IF a >= b THEN a ELSE b

RECURSIVE Pow2(_)
Pow2(n) == IF n <= 0 THEN 1 ELSE 2 * Pow2(n - 1)

\* Sequences over S of length at most n.
SeqsUpTo(S, n) == UNION {[1..k -> S] : k \in 0..n}

\* Python's seq[:n], for n of either sign.
PySliceTo(s, n) ==
    IF n >= 0 THEN SubSeq(s, 1, Min(n, Len(s)))
    ELSE SubSeq(s, 1, Max(Len(s) + n, 0))

\* ------------------------------------------------- float(ra), time.sleep
Digits == <<"0", "1", "2", "3", "4", "5", "6", "7", "8", "9">>

IsDigit(c) == \E i \in 1..10 : Digits[i] = c

DigitValue(c) == (CHOOSE i \in 1..10 : Digits[i] = c) - 1

RECURSIVE DigitsValue(_)
DigitsValue(s) ==
    IF s = <<>> THEN 0
    ELSE DigitsValue(SubSeq(s, 1, Len(s) - 1)) * 10 + DigitValue(s[Len(s)])

AllDigits(s) == s # <<>> /\ \A i \in 1..Len(s) : IsDigit(s[i])

\* float(text) for the header texts of the model: an optional sign, then
\* digits with at most one decimal, or nan / inf.  ok = FALSE is ValueError.
PyFloat(text) ==
    LET signed == text # <<>> /\ text[1] \in {"-", "+"}
        sign == IF text # <<>> /\ text[1] = "-" THEN -1 ELSE 1
        body == IF signed THEN Tail(text) ELSE text
        n == Len(body)
    IN  IF body = <<"n", "a", "n">> THEN [ok |-> TRUE, kind |-> "nan", ds |-> 0]
        ELSE IF body = <<"i", "n", "f">> THEN [ok |-> TRUE, kind |-> "inf", ds |-> sign]
        ELSE IF AllDigits(body)
            THEN [ok |-> TRUE, kind |-> "num", ds |-> sign * 10 * DigitsValue(body)]
        ELSE IF n >= 3 /\ body[n - 1] = "." /\ AllDigits(SubSeq(body, 1, n - 2))
                /\ IsDigit(body[n])
            THEN [ok |-> TRUE, kind |-> "num",
                  ds |-> sign * (10 * DigitsValue(SubSeq(body, 1, n - 2)) + DigitValue(body[n]))]
        ELSE [ok |-> FALSE, kind |-> "error", ds |-> 0]

\* A computed wait: a finite number of tenths of a second, nan or +-inf.
Wait(kind, ds) == [kind |-> kind, ds |-> ds]

NoWait == [kind |-> "none", ds |-> 0]

\* time.sleep raises ValueError on a negative or nan argument and
\* OverflowError on an infinite one.
SleepRaises(w) == w.kind \in {"nan", "inf"} \/ (w.kind = "num" /\ w.ds < 0)

\* ------------------------------------------------------- fetch outcomes
NoHeader == [present |-> FALSE, text |-> <<>>]

Header(text) == [present |-> TRUE, text |-> text]

RetryAfterTexts ==
    { <<>>, <<"0">>, <<"2">>, <<"1", ".", "5">>, <<"-", "1">>,
      <<"n", "a", "n">>, <<"W", "e", "d">> }

RetryAfterHeaders == {NoHeader} \cup {Header(t) : t \in RetryAfterTexts}

StatusCodes == {200, 403, 404, 429, 500, 599}

NoOutcome == [kind |-> "none", status |-> 0, ra |-> NoHeader]

\* requests.RequestException: a connection error or a timeout.
Exceptions == {[kind |-> k, status |-> 0, ra |-> NoHeader] : k \in {"neterr", "timeout"}}

Responses ==
    {[kind |-> "resp", status |-> s, ra |-> NoHeader] : s \in StatusCodes}
    \cup {[kind |-> "resp", status |-> 429, ra |-> h] : h \in RetryAfterHeaders}

Outcomes == Exceptions \cup Responses

NotReturned == [kind |-> "unset", status |-> 0, ra |-> NoHeader]

None == [kind |-> "None", status |-> 0, ra |-> NoHeader]

\* random.uniform(lo, hi): the low end, the middle and just under the high end.
Uniform(lo, hi) == {lo, (lo + hi) \div 2, hi - 1}

\* A backoff that grows linearly instead of doubling.
Backoff_Linear(k) == BASE_BACKOFF * k

Backoff(k) == BASE_BACKOFF * Pow2(k - 1)

\* --------------------------------------------------- fetch_with_retries
\* except requests.RequestException: wait of line 101.
WaitNetworkError(k) == {Wait("num", Backoff(k) + j) : j \in Uniform(5, 20)}

\* A 429 branch that adds the backoff term to a numeric Retry-After.
WaitRateLimited_AddsBackoff(k, ra) ==
    IF ra.present /\ ra.text # <<>>
    THEN LET f == PyFloat(ra.text)
         IN  IF f.ok THEN {Wait(f.kind, f.ds + Backoff(k))}
             ELSE {Wait("num", Backoff(k) + j) : j \in Uniform(10, 30)}
    ELSE {Wait("num", Backoff(k) + j) : j \in Uniform(10, 40)}

\* The 429 branch: the wait of lines 114-122.
WaitRateLimited(k, ra) ==
    IF ra.present /\ ra.text # <<>>
    THEN LET f == PyFloat(ra.text)
         IN  IF f.ok THEN {Wait(f.kind, f.ds)}
             ELSE {Wait("num", Backoff(k) + j) : j \in Uniform(10, 30)}
    ELSE {Wait("num", Backoff(k) + j) : j \in Uniform(10, 40)}

\* The 5xx branch: the wait of line 131.
WaitServerError(k) == {Wait("num", Backoff(k) + j) : j \in Uniform(5, 25)}

\* A rate-limit test that takes every 4xx for a 429.
IsRateLimited_Any4xx(status) == 400 <= status /\ status < 500

IsRateLimited(status) == status = 429

\* A 5xx test that forgets the attempt < max_retries conjunct.
ShouldRetryServerError_NoCeiling(status, k, max) == 500 <= status /\ status < 600

\* The condition of line 130.
ShouldRetryServerError(status, k, max) == 500 <= status /\ status < 600 /\ k < max

\* Whether iteration k, having got outcome o, sleeps and continues.
Retries(k, max, o) ==
    \/ o.kind # "resp"
    \/ /\ o.status # 200
       /\ IsRateLimited(o.status) \/ ShouldRetryServerError(o.status, k, max)

\* The waits iteration k may compute for outcome o.
Waits(k, max, o) ==
    IF o.kind # "resp" THEN WaitNetworkError(k)
    ELSE IF o.status = 200 THEN {NoWait}
    ELSE IF IsRateLimited(o.status) THEN WaitRateLimited(k, o.ra)
    ELSE IF ShouldRetryServerError(o.status, k, max) THEN WaitServerError(k)
    ELSE {NoWait}

\* An iteration that returns the last response when the attempts are used up.
fetch_iteration_ReturnsLast(k, max, o, w) ==
    IF Retries(k, max, o)
    THEN IF SleepRaises(w)
         THEN [next |-> "raised", result |-> NotReturned, slept |-> FALSE]
         ELSE IF k < max
              THEN [next |-> "loop", result |-> NotReturned, slept |-> TRUE]
              ELSE [next |-> "done", result |-> o, slept |-> TRUE]
    ELSE [next |-> "done", result |-> o, slept |-> FALSE]

\* One iteration of the for loop of lines 93-142, with outcome o of session.get
\* and computed wait w: what the iteration ends in.  A continue out of the last
\* iteration falls out of the loop to the return None of line 146.
fetch_iteration(k, max, o, w) ==
    IF Retries(k, max, o)
    THEN IF SleepRaises(w)
         THEN [next |-> "raised", result |-> NotReturned, slept |-> FALSE]
         ELSE IF k < max
              THEN [next |-> "loop", result |-> NotReturned, slept |-> TRUE]
              ELSE [next |-> "done", result |-> None, slept |-> TRUE]
    ELSE [next |-> "done", result |-> o, slept |-> FALSE]

\* A call whose attempt counter goes on from where the call before it stopped.
fetch_call_SharedCounter(n) ==
    /\ fpc \in {"idle", "done", "raised"}
    /\ maxRetries' = n
    /\ attempt' = IF attempt < n THEN attempt ELSE 0
    /\ requests' = 0
    /\ earlier' = requests
    /\ trace' = <<>>
    /\ sleeps' = 0
    /\ lastOutcome' = NoOutcome
    /\ lastWait' = NoWait
    /\ IF n >= 1
       THEN fpc' = "loop" /\ fresult' = NotReturned
       ELSE fpc' = "done" /\ fresult' = None
    /\ UNCHANGED <<runVars, discVars, extVars>>

\* A call fetch_with_retries(url, max_retries = n).
fetch_call(n) ==
    /\ fpc \in {"idle", "done", "raised"}
    /\ maxRetries' = n
    /\ attempt' = 0
    /\ requests' = 0
    /\ earlier' = requests
    /\ trace' = <<>>
    /\ sleeps' = 0
    /\ lastOutcome' = NoOutcome
    /\ lastWait' = NoWait
    /\ IF n >= 1
       THEN fpc' = "loop" /\ fresult' = NotReturned
       ELSE fpc' = "done" /\ fresult' = None
    /\ UNCHANGED <<runVars, discVars, extVars>>

fetch_attempt(o) ==
    /\ fpc = "loop"
    /\ LET k == attempt + 1
       IN  \E w \in Waits(k, maxRetries, o) :
             LET it == fetch_iteration(k, maxRetries, o, w)
             IN  /\ attempt' = k
                 /\ requests' = requests + 1
                 /\ trace' = Append(trace, [kind |-> o.kind, status |-> o.status])
                 /\ lastOutcome' = o
                 /\ lastWait' = w
                 /\ sleeps' = IF it.slept THEN sleeps + 1 ELSE sleeps
                 /\ fpc' = it.next
                 /\ fresult' = it.result
    /\ UNCHANGED <<maxRetries, earlier, runVars, discVars, extVars>>

\* The exception of time.sleep, raised out of the call after outcome o.
Raised(o) == [kind |-> "raised", status |-> o.status, ra |-> o.ra]

IsRaised(r) == r.kind = "raised"

\* What a whole call with max_retries = max may end in, from iteration k on:
\* the returned value, or the exception that time.sleep raised.
RECURSIVE FetchFinals(_, _)
FetchFinals(k, max) ==
    IF k > max THEN {None}
    ELSE LET its == UNION {{[o |-> o, it |-> fetch_iteration(k, max, o, w)] :
                               w \in Waits(k, max, o)} : o \in Outcomes}
         IN  {x.it.result : x \in {y \in its : y.it.next = "done"}}
             \cup {Raised(x.o) : x \in {y \in its : y.it.next = "raised"}}
             \cup (IF \E x \in its : x.it.next = "loop" THEN FetchFinals(k + 1, max) ELSE {})

fetch_with_retries(max) == FetchFinals(1, max)

\* ------------------------------------------------------ direct fetch calls
\* No earlier call of collect_listing_urls_from_search.
NoCall == [called |-> FALSE, read |-> FALSE, result |-> <<>>]

\* No listing page handed to an extractor yet, and no record returned yet.
NoListingPage == [objs |-> <<>>]

NotExtracted == [source |-> "none"]

InitIdleRun ==
    /\ site = "none" /\ max_total_arg = 0 /\ pc = "idle" /\ max_total = 0 /\ max_per_search = 0
    /\ seedIdx = 0 /\ queue = <<>> /\ idx = 0 /\ leads = <<>>
    /\ exposed = {} /\ served = <<>> /\ seedLog = <<>> /\ tasks = <<>>

InitIdleDisc ==
    /\ dpc = "idle" /\ dsite = "none" /\ dlimit = 0
    /\ dpage = [nav |-> "ok", words |-> {}, words2 |-> {}, entries |-> <<>>]
    /\ dresult = <<>>
    /\ dread = FALSE /\ dprev = NoCall /\ dheld = 0

InitIdleExt ==
    /\ xpc = "idle" /\ xsite = "none" /\ xpage = NoListingPage /\ xrecord = NotExtracted
    /\ xsecondary = 0

InitIdleFetch ==
    /\ fpc = "idle" /\ maxRetries = 0 /\ attempt = 0 /\ requests = 0 /\ sleeps = 0
    /\ trace = <<>>
    /\ lastOutcome = NoOutcome /\ lastWait = NoWait /\ fresult = NotReturned
    /\ earlier = 0

InitFetch == InitIdleFetch /\ InitIdleRun /\ InitIdleDisc /\ InitIdleExt

NextFetch ==
    \/ \E n \in 0..MaxRetriesBound : fetch_call(n)
    \/ \E o \in Outcomes : fetch_attempt(o)

SpecFetch == InitFetch /\ [][NextFetch]_vars

\* ------------------------------------------------------------ page model
\* A link as a page carries it.  host "" is a site-relative link ("/...");
\* kind is the first path segment: "realestateandhomes-detail" stands for
\* /realestateandhomes-detail/<id>, "home-details" for /home-details/<id>,
\* "homedetails" for /homedetails/<id>_zpid and "search" for a link that is no
\* listing; q is a query string, sl a trailing slash.
Href(host, kind, id, q, sl) == [host |-> host, kind |-> kind, id |-> id, q |-> q, sl |-> sl]

\* pat in href, for the patterns the scrapers test.
Contains(pat, h) ==
    CASE pat = "/realestateandhomes-detail/" -> h.kind = "realestateandhomes-detail"
      [] pat = "realestateandhomes-detail" -> h.kind = "realestateandhomes-detail"
      [] pat = "/home-details/" -> h.kind = "home-details"
      [] pat = "detail" -> h.kind \in {"realestateandhomes-detail", "home-details", "homedetails"}
      [] pat = "homedetails" -> h.kind = "homedetails"
      [] pat = "_zpid" -> h.kind = "homedetails"
      [] pat = "zillow.com" -> h.host = "zillow"

\* urljoin(search_url, href) for a seed on host.
urljoin(host, h) == IF h.host = "" THEN [h EXCEPT !.host = host] ELSE h

\* The block keywords, and the part of a phrase that is itself tested.
Keywords == {"captcha", "verify you are human", "access denied", "unusual traffic", "distil"}

\* html.lower() on the phrases of the model.
Lower(w) ==
    CASE w = "CAPTCHA" -> "captcha"
      [] w = "Access Denied" -> "access denied"
      [] OTHER -> w

\* sub in body.lower(), where words are the phrases the body holds.
InLower(sub, words) ==
    \E w \in words :
        \/ Lower(w) = sub
        \/ sub = "verify" /\ Lower(w) = "verify you are human"

\* An entry of a search page, in page order.  Tags: "item" an element of an
\* ItemList's itemListElement, "listing" a JSON-LD object with a url of its own,
\* "badtype" a JSON-LD object whose @type is no string, "state" a string of the
\* window state, "anchor" an <a href>, "scroll" an <a href> that is attached
\* after scrolling, "html" an absolute URL elsewhere in the page source.
Entry(tag, h) == [tag |-> tag, href |-> h]

Page(nav, words, words2, entries) ==
    [nav |-> nav, words |-> words, words2 |-> words2, entries |-> entries]

Tagged(entries, tags) == SelectSeq(entries, LAMBDA e : e.tag \in tags)

Hrefs(entries) == [i \in 1..Len(entries) |-> entries[i].href]

\* -------------------------- realtor collect_listing_urls_from_search
\* The block test of line 220.
realtor_search_blocked(words) ==
    \/ InLower("captcha", words)
    \/ InLower("verify you are human", words)
    \/ InLower("access denied", words)
    \/ InLower("distil", words)

\* The loop of lines 231-254 from object i on: the list found, and how the
\* loop ended: "end", "return" (the early returns of lines 247 and 254) or
\* "except" (t.lower() on an @type that is no string, caught at line 255).
RECURSIVE RealtorJsonLd(_, _, _, _)
RealtorJsonLd(objs, i, found, limit) ==
    IF i > Len(objs) THEN [found |-> found, out |-> "end"]
    ELSE LET e == objs[i]
             full == urljoin("realtor", e.href)
         IN  IF e.tag = "badtype" THEN [found |-> found, out |-> "except"]
             ELSE IF Contains("/realestateandhomes-detail/", e.href)
                     /\ full \notin Range(found)
             THEN LET f2 == Append(found, full)
                  IN  IF Len(f2) >= limit THEN [found |-> f2, out |-> "return"]
                      ELSE RealtorJsonLd(objs, i + 1, f2, limit)
             ELSE RealtorJsonLd(objs, i + 1, found, limit)

\* The test of an anchor in the first (line 265) and second (line 275) scan.
RealtorAnchorMatches(pass, h) ==
    IF pass = 1 THEN Contains("/realestateandhomes-detail/", h)
    ELSE /\ Contains("detail", h)
         /\ Contains("realestateandhomes-detail", h) \/ Contains("/home-details/", h)

\* One anchor scan (lines 262-270, lines 273-280) from anchor i on.
RECURSIVE RealtorAnchors(_, _, _, _, _)
RealtorAnchors(anchors, i, found, limit, pass) ==
    IF i > Len(anchors) THEN found
    ELSE LET full == urljoin("realtor", anchors[i])
         IN  IF RealtorAnchorMatches(pass, anchors[i]) /\ full \notin Range(found)
             THEN LET f2 == Append(found, full)
                  IN  IF Len(f2) >= limit THEN f2
                      ELSE RealtorAnchors(anchors, i + 1, f2, limit, pass)
             ELSE RealtorAnchors(anchors, i + 1, found, limit, pass)

\* Lines 227-286: the list found when the function leaves the strategies, and
\* whether it left by an early return of the JSON-LD loop.
RealtorFound(page, limit) ==
    LET j == RealtorJsonLd(Tagged(page.entries, {"item", "listing", "badtype"}),
                           1, <<>>, limit)
        anchors == Hrefs(Tagged(page.entries, {"anchor"}))
        a1 == RealtorAnchors(anchors, 1, j.found, limit, 1)
        a2 == IF Len(a1) < limit THEN RealtorAnchors(anchors, 1, a1, limit, 2) ELSE a1
    IN  IF j.out = "return" THEN [found |-> j.found, early |-> TRUE]
        ELSE [found |-> a2, early |-> FALSE]

\* Lines 217-288: the URLs collected from the html of a search page.
realtor_collect_from_html(page, limit) ==
    IF realtor_search_blocked(page.words) THEN <<>>
    ELSE LET f == RealtorFound(page, limit)
         IN  IF f.early THEN f.found ELSE PySliceTo(f.found, limit)

\* The number of URLs found holds when the call ends.
RealtorHeld(resp, page, limit) ==
    IF resp.kind # "resp" \/ resp.status # 200 \/ realtor_search_blocked(page.words) THEN 0
    ELSE Len(RealtorFound(page, limit).found)

\* Lines 206-288, given what fetch_with_retries returned and the page it got.
realtor_collect_listing_urls_from_search(resp, page, limit) ==
    IF resp.kind # "resp" THEN <<>>
    ELSE IF resp.status # 200 THEN <<>>
    ELSE realtor_collect_from_html(page, limit)

\* --------------------------- zillow collect_listing_urls_from_search
_normalize_url(h) == IF h.host = "" THEN [h EXCEPT !.host = "zillow"] ELSE h

\* u.split("?")[0].rstrip("/")
Canonical(h) == [h EXCEPT !.q = FALSE, !.sl = FALSE]

IsZillowListing(h) == Contains("homedetails", h) \/ Contains("_zpid", h)

\* bypass_captcha: TRUE when the page may be used.
bypass_captcha(words, words2, reloadOk) ==
    IF InLower("captcha", words) \/ InLower("verify", words) \/ InLower("unusual traffic", words)
    THEN reloadOk /\ ~(InLower("captcha", words2) \/ InLower("verify", words2))
    ELSE TRUE

\* Lines 216-233: the JSON-LD objects; no test of the limit.
ZillowJsonLd(entries) ==
    {Canonical(_normalize_url(e.href)) :
        e \in {x \in Range(entries) :
                 \/ x.tag = "listing" /\ Contains("zillow.com", x.href)
                                      /\ IsZillowListing(_normalize_url(x.href))
                 \/ x.tag = "item" /\ IsZillowListing(_normalize_url(x.href))}}

\* Lines 252-268: the strings of the window state; no test of the limit.
ZillowState(entries) ==
    {Canonical(_normalize_url(e.href)) :
        e \in {x \in Range(entries) :
                 /\ x.tag = "state"
                 /\ Contains("zillow.com", x.href)
                 /\ IsZillowListing(x.href)}}

\* The anchor loops of lines 290-302 and 314-326, from anchor i on.
RECURSIVE ZillowAnchors(_, _, _, _)
ZillowAnchors(anchors, i, found, limit) ==
    IF i > Len(anchors) THEN found
    ELSE LET h0 == anchors[i]
             h == IF ~Contains("zillow.com", h0) /\ h0.host = "" THEN _normalize_url(h0) ELSE h0
         IN  IF IsZillowListing(h)
             THEN LET f2 == found \cup {Canonical(h)}
                  IN  IF Cardinality(f2) >= limit THEN f2
                      ELSE ZillowAnchors(anchors, i + 1, f2, limit)
             ELSE ZillowAnchors(anchors, i + 1, found, limit)

\* Lines 310-328: up to three scrolls, each followed by an anchor scan.
RECURSIVE ZillowScroll(_, _, _, _)
ZillowScroll(anchors, round, found, limit) ==
    IF round > 3 THEN found
    ELSE LET f2 == ZillowAnchors(anchors, 1, found, limit)
         IN  IF Cardinality(f2) >= limit THEN f2
             ELSE ZillowScroll(anchors, round + 1, f2, limit)

\* Lines 336-341: the absolute zillow.com URLs of the page source.
RECURSIVE ZillowRegex(_, _, _, _)
ZillowRegex(urls, i, found, limit) ==
    IF i > Len(urls) THEN found
    ELSE IF IsZillowListing(urls[i])
         THEN LET f2 == found \cup {Canonical(urls[i])}
              IN  IF Cardinality(f2) >= limit THEN f2
                  ELSE ZillowRegex(urls, i + 1, f2, limit)
         ELSE ZillowRegex(urls, i + 1, found, limit)

\* Lines 208-343: the set found when the page is open and not blocked.
ZillowFound(entries, limit) ==
    LET f1 == ZillowJsonLd(entries)
        f2 == IF Cardinality(f1) < limit THEN f1 \cup ZillowState(entries) ELSE f1
        f3 == IF Cardinality(f2) < limit
              THEN ZillowAnchors(Hrefs(Tagged(entries, {"anchor"})), 1, f2, limit)
              ELSE f2
        f4 == IF Cardinality(f3) < limit
              THEN ZillowScroll(Hrefs(Tagged(entries, {"anchor", "scroll"})), 1, f3, limit)
              ELSE f3
        f5 == IF Cardinality(f4) < limit
              THEN ZillowRegex(Hrefs(SelectSeq(entries, LAMBDA e : e.href.host = "zillow")),
                               1, f4, limit)
              ELSE f4
    IN  f5

\* list(found): a set is listed in an order the code does not choose.
ListsOf(S) ==
    {s \in [1..Cardinality(S) -> S] : \A i, j \in 1..Cardinality(S) : i # j => s[i] # s[j]}

\* Lines 173-348: the lists a call may return for a page.
zillow_collect_listing_urls_from_search(page, reloadOk, limit) ==
    IF page.nav # "ok" THEN {<<>>}
    ELSE IF ~bypass_captcha(page.words, page.words2, reloadOk) THEN {<<>>}
    ELSE {PySliceTo(l, limit) : l \in ListsOf(ZillowFound(page.entries, limit))}

\* The number of URLs found holds when the call ends.
ZillowHeld(page, reloadOk, limit) ==
    IF page.nav # "ok" \/ ~bypass_captcha(page.words, page.words2, reloadOk) THEN 0
    ELSE Cardinality(ZillowFound(page.entries, limit))

\* ------------------------- direct calls of collect_listing_urls_from_search
SearchHref == Href("", "search", 1, FALSE, FALSE)

\* The links of the realtor search pages: a listing as a relative link, the same
\* as an absolute link and with a query string, a second listing, a
\* /home-details/ link and a link that is no listing.
RealtorHrefs ==
    { Href("", "realestateandhomes-detail", 1, FALSE, FALSE),
      Href("realtor", "realestateandhomes-detail", 1, FALSE, FALSE),
      Href("", "realestateandhomes-detail", 1, TRUE, FALSE),
      Href("", "realestateandhomes-detail", 2, FALSE, FALSE),
      Href("", "home-details", 3, FALSE, FALSE),
      SearchHref }

RealtorEntries ==
    {Entry(t, h) : t \in {"item", "listing", "anchor"}, h \in RealtorHrefs}
    \cup {Entry("badtype", SearchHref)}

\* A blocked page for every keyword, and the pages of up to MaxItems entries.
PagesOver(entries) ==
    {Page("ok", {}, {}, es) : es \in SeqsUpTo(entries, MaxItems)}
    \cup {Page("ok", {w}, {}, es) : w \in Keywords \cup {"CAPTCHA"}, es \in SeqsUpTo(entries, 1)}

RealtorPages == PagesOver(RealtorEntries)

\* The links of the zillow search pages: a listing as a relative link, the same
\* as an absolute link with a query string and with a trailing slash, a second
\* and a third listing, and a link that is no listing.
ZillowHrefs ==
    { Href("", "homedetails", 1, FALSE, FALSE),
      Href("zillow", "homedetails", 1, TRUE, FALSE),
      Href("zillow", "homedetails", 1, FALSE, TRUE),
      Href("", "homedetails", 2, FALSE, FALSE),
      Href("zillow", "homedetails", 3, FALSE, FALSE),
      SearchHref }

ZillowEntries ==
    {e \in {Entry(t, h) : t \in {"item", "listing", "state", "anchor", "scroll", "html"},
                          h \in ZillowHrefs} :
        e.tag = "html" => e.href.host = "zillow"}

\* The pages above, a page whose navigation fails, and blocked pages that a
\* reload leaves blocked.
ZillowPages ==
    PagesOver(ZillowEntries)
    \cup {Page("fail", {}, {}, <<>>)}
    \cup {Page("ok", {w}, {w}, es) : w \in {"captcha", "verify you are human"},
                                     es \in SeqsUpTo(ZillowEntries, 1)}

DirectLimits == (-1)..MaxLimit

\* One call of realtor collect_listing_urls_from_search that is served page.
realtor_collect(page) ==
    \E resp \in fetch_with_retries(DEFAULT_MAX_RETRIES) :
        /\ dpage' = page
        /\ dread' = (resp.kind = "resp" /\ resp.status = 200)
        /\ IF IsRaised(resp)
           THEN dpc' = "raised" /\ dresult' = <<>> /\ dheld' = 0
           ELSE /\ dpc' = "returned"
                /\ dresult' = realtor_collect_listing_urls_from_search(resp, page, dlimit)
                /\ dheld' = RealtorHeld(resp, page, dlimit)

\* One call of zillow collect_listing_urls_from_search that is served page;
\* context.new_page() (line 173) may raise.
zillow_collect(page) ==
    \E newPageOk \in BOOLEAN, reloadOk \in BOOLEAN :
        /\ dpage' = page
        /\ dread' = (newPageOk /\ page.nav = "ok")
        /\ IF ~newPageOk
           THEN dpc' = "raised" /\ dresult' = <<>> /\ dheld' = 0
           ELSE /\ dpc' = "returned"
                /\ dresult' \in zillow_collect_listing_urls_from_search(page, reloadOk, dlimit)
                /\ dheld' = ZillowHeld(page, reloadOk, dlimit)

realtor_collect_call ==
    /\ dpc = "idle" /\ dsite = "realtor"
    /\ \E page \in RealtorPages : realtor_collect(page)
    /\ UNCHANGED <<dsite, dlimit, dprev, fetchVars, runVars, extVars>>

zillow_collect_call ==
    /\ dpc = "idle" /\ dsite = "zillow"
    /\ \E page \in ZillowPages : zillow_collect(page)
    /\ UNCHANGED <<dsite, dlimit, dprev, fetchVars, runVars, extVars>>

\* The call before, as dprev keeps it.
ThisCall == [called |-> TRUE, read |-> dread, result |-> dresult]

\* A second call with the same limit, served the same page.
realtor_collect_again ==
    /\ dpc = "returned" /\ dsite = "realtor" /\ ~dprev.called
    /\ realtor_collect(dpage)
    /\ dprev' = ThisCall
    /\ UNCHANGED <<dsite, dlimit, fetchVars, runVars, extVars>>

zillow_collect_again ==
    /\ dpc = "returned" /\ dsite = "zillow" /\ ~dprev.called
    /\ zillow_collect(dpage)
    /\ dprev' = ThisCall
    /\ UNCHANGED <<dsite, dlimit, fetchVars, runVars, extVars>>

InitDiscover ==
    /\ InitIdleFetch /\ InitIdleRun /\ InitIdleExt
    /\ dpc = "idle"
    /\ dsite \in {"realtor", "zillow"}
    /\ dlimit \in DirectLimits
    /\ dpage = Page("ok", {}, {}, <<>>)
    /\ dresult = <<>>
    /\ dread = FALSE /\ dprev = NoCall /\ dheld = 0

NextDiscover ==
    \/ realtor_collect_call
    \/ zillow_collect_call
    \/ realtor_collect_again
    \/ zillow_collect_again

SpecDiscover == InitDiscover /\ [][NextDiscover]_vars

\* ------------------------------------------------------------ run_scrape
\* int(arg or os.getenv(NAME, default)) with the variable unset: None and 0 are
\* falsy and give the default.
OrDefault_DefaultFirst(arg, default) == default

\* A cap that is one larger than the argument.
OrDefault_PlusOne(arg, default) == IF arg = 0 THEN default ELSE arg + 1

OrDefault(arg, default) == IF arg = 0 THEN default ELSE arg

\* The body of a listing page: the block phrases it holds.
Body(words) == [words |-> words]

\* The bodies of the listing pages of a run: a clean page and a page that
\* holds "captcha".
DetailBodies == {Body({}), Body({"captcha"})}

\* The listings of the seed pages of a run: relative links of NumIds listings.
RunHrefs(kind) == {Href("", kind, i, FALSE, FALSE) : i \in 1..NumIds}

\* The seed pages of a run: every listing as an anchor and the first one as an
\* ItemList element too, up to MaxItems entries a page, and a blocked page.
RunPages(kind) ==
    {Page("ok", {}, {}, es) :
        es \in SeqsUpTo({Entry("anchor", h) : h \in RunHrefs(kind)}
                        \cup {Entry("item", Href("", kind, 1, FALSE, FALSE))}, MaxItems)}
    \cup {Page("ok", {"captcha"}, {"captcha"}, <<>>)}

\* The block test of line 316.
realtor_listing_blocked(words) ==
    \/ InLower("captcha", words)
    \/ InLower("verify you are human", words)
    \/ InLower("access denied", words)

\* realtor extract_listing_data, lines 302-403: None or the record.
NoRecord == [url |-> SearchHref, source |-> "None"]

\* An extractor that gives no record for a page without any other field.
extract_listing_data_DropsBare(url, resp, body) == NoRecord

extract_listing_data(url, resp, body) ==
    IF resp.kind # "resp" THEN NoRecord
    ELSE IF resp.status # 200 THEN NoRecord
    ELSE IF realtor_listing_blocked(body.words) THEN NoRecord
    ELSE [url |-> url, source |-> "realtor"]

\* zillow _extract_listing_data, lines 359-568: always a record.
_extract_listing_data(url, body) == [url |-> url, source |-> "zillow"]

\* A merge that takes every url of the seed.
RECURSIVE RealtorMerge_NoStop(_, _, _, _)
RealtorMerge_NoStop(urls, i, all, cap) ==
    IF i > Len(urls) THEN all
    ELSE RealtorMerge_NoStop(urls, i + 1,
             IF urls[i] \notin Range(all) THEN Append(all, urls[i]) ELSE all, cap)

\* realtor lines 450-454: the urls of one seed merged into all_listing_urls.
RECURSIVE RealtorMerge(_, _, _, _)
RealtorMerge(urls, i, all, cap) ==
    IF i > Len(urls) THEN all
    ELSE LET a2 == IF urls[i] \notin Range(all) THEN Append(all, urls[i]) ELSE all
         IN  IF Len(a2) >= cap THEN a2 ELSE RealtorMerge(urls, i + 1, a2, cap)

\* A slice that stops one listing early.
RealtorWorklist_OffByOne(all, cap) == PySliceTo(all, cap - 1)

\* realtor line 462: all_listing_urls[:max_total].
RealtorWorklist(all, cap) == PySliceTo(all, cap)

\* zillow lines 651-655: the urls of one seed merged into collected_urls.
RECURSIVE ZillowMerge(_, _, _, _)
ZillowMerge(urls, i, all, cap) ==
    IF i > Len(urls) THEN all
    ELSE IF Len(all) >= cap THEN all
    ELSE ZillowMerge(urls, i + 1,
                     IF urls[i] \notin Range(all) THEN Append(all, urls[i]) ELSE all, cap)

\* What was served for a listing: fetched tells whether a page was loaded.
Served(url, fetched, words) == [url |-> url, fetched |-> fetched, words |-> words]

\* The fetch of a seed page, as seedLog keeps it.
SeedFetch == [seed |-> seedIdx, full |-> Len(queue) >= max_total]

\* The start of a listing task, as tasks keeps it: before tells whether a pacing
\* sleep precedes the fetch in the same iteration (realtor line 464), after
\* whether the iteration ends with one (zillow line 690).
Task(url, before, after) ==
    [url |-> url, had |-> Len(leads), before |-> before, after |-> after]

\* realtor lines 444-456: one iteration of the loop over the seeds.  An
\* exception of collect_listing_urls_from_search is caught nowhere: the run
\* ends raising it (fresult keeps the response whose Retry-After made
\* time.sleep raise).
realtor_seed ==
    /\ site = "realtor" /\ pc = "seeds" /\ seedIdx <= NumSeeds
    /\ seedLog' = Append(seedLog, SeedFetch)
    /\ \E resp \in fetch_with_retries(DEFAULT_MAX_RETRIES), page \in RunPages("realestateandhomes-detail") :
          IF IsRaised(resp)
          THEN pc' = "raised" /\ fresult' = resp /\ UNCHANGED <<seedIdx, queue, exposed>>
          ELSE LET urls == realtor_collect_listing_urls_from_search(resp, page, max_per_search)
                   q2 == RealtorMerge(urls, 1, queue, max_total)
               IN  /\ queue' = q2
                   /\ exposed' = exposed \cup Range(urls)
                   /\ seedIdx' = seedIdx + 1
                   /\ pc' = IF Len(q2) >= max_total \/ seedIdx = NumSeeds
                            THEN "listings" ELSE "seeds"
                   /\ fresult' = fresult
    /\ UNCHANGED <<site, max_total_arg, max_total, max_per_search, idx, leads, served, tasks,
                   fpc, maxRetries, attempt, requests, trace, sleeps, lastOutcome, lastWait, earlier,
                   discVars, extVars>>

\* realtor lines 462-472: one iteration of the loop over the listings.
realtor_listing ==
    /\ site = "realtor" /\ pc = "listings"
    /\ idx <= Len(RealtorWorklist(queue, max_total))
    /\ LET url == RealtorWorklist(queue, max_total)[idx]
       IN  /\ tasks' = Append(tasks, Task(url, TRUE, FALSE))
           /\ \E resp \in fetch_with_retries(DEFAULT_MAX_RETRIES), body \in DetailBodies :
             IF IsRaised(resp)
             THEN /\ leads' = leads
                  /\ served' = Append(served, Served(url, FALSE, {}))
             ELSE LET data == extract_listing_data(url, resp, body)
                  IN  /\ leads' = IF data # NoRecord THEN Append(leads, data) ELSE leads
                      /\ served' = Append(served,
                             IF resp.kind = "resp" /\ resp.status = 200
                             THEN Served(url, TRUE, body.words)
                             ELSE Served(url, FALSE, {}))
    /\ idx' = idx + 1
    /\ UNCHANGED <<site, max_total_arg, pc, max_total, max_per_search, seedIdx, queue,
                   exposed, seedLog, fetchVars, discVars, extVars>>

\* realtor line 477.
realtor_return ==
    /\ site = "realtor" /\ pc = "listings"
    /\ idx > Len(RealtorWorklist(queue, max_total))
    /\ pc' = "done"
    /\ UNCHANGED <<site, max_total_arg, max_total, max_per_search, seedIdx, queue, idx,
                   leads, exposed, served, seedLog, tasks, fetchVars, discVars, extVars>>

\* zillow lines 642-655: one iteration of the loop over the seeds.  An exception
\* of collect_listing_urls_from_search is caught and gives no urls.
zillow_seed ==
    /\ site = "zillow" /\ pc = "seeds" /\ seedIdx <= NumSeeds
    /\ IF Len(queue) >= max_total
       THEN pc' = "listings" /\ UNCHANGED <<seedIdx, queue, exposed, seedLog>>
       ELSE \E newPageOk \in BOOLEAN, page \in RunPages("homedetails") \cup {Page("fail", {}, {}, <<>>)},
               reloadOk \in BOOLEAN :
              \E urls \in IF newPageOk
                          THEN zillow_collect_listing_urls_from_search(page, reloadOk, max_per_search)
                          ELSE {<<>>} :
                 /\ queue' = ZillowMerge(urls, 1, queue, max_total)
                 /\ exposed' = exposed \cup Range(urls)
                 /\ seedIdx' = seedIdx + 1
                 /\ pc' = IF seedIdx = NumSeeds THEN "listings" ELSE "seeds"
                 /\ seedLog' = Append(seedLog, SeedFetch)
    /\ UNCHANGED <<site, max_total_arg, max_total, max_per_search, idx, leads, served, tasks,
                   fetchVars, discVars, extVars>>

\* zillow lines 660-694: one iteration of the loop over the listings.  The page
\* may fail to open (new_page raises, or both goto calls fail); a page that
\* opened is handed to _extract_listing_data as it is.
zillow_listing ==
    /\ site = "zillow" /\ pc = "listings" /\ idx <= Len(queue)
    /\ IF Len(leads) >= max_total
       THEN pc' = "done" /\ UNCHANGED <<idx, leads, served, tasks>>
       ELSE /\ \E opened \in BOOLEAN, body \in DetailBodies :
                 /\ tasks' = Append(tasks, Task(queue[idx], FALSE, opened))
                 /\ IF opened
                    THEN /\ leads' = Append(leads, _extract_listing_data(queue[idx], body))
                         /\ served' = Append(served, Served(queue[idx], TRUE, body.words))
                    ELSE /\ leads' = leads
                         /\ served' = Append(served, Served(queue[idx], FALSE, {}))
            /\ idx' = idx + 1
            /\ pc' = pc
    /\ UNCHANGED <<site, max_total_arg, max_total, max_per_search, seedIdx, queue,
                   exposed, seedLog, fetchVars, discVars, extVars>>

\* zillow line 705.
zillow_return ==
    /\ site = "zillow" /\ pc = "listings" /\ idx > Len(queue)
    /\ pc' = "done"
    /\ UNCHANGED <<site, max_total_arg, max_total, max_per_search, seedIdx, queue, idx,
                   leads, exposed, served, seedLog, tasks, fetchVars, discVars, extVars>>

\* A call run_scrape(search_urls, max_per_search, max_total) of either scraper,
\* with NumSeeds seeds: the state after lines 435-443 (realtor), 612-641 (zillow).
InitRun ==
    /\ InitIdleFetch /\ InitIdleDisc /\ InitIdleExt
    /\ site \in {"realtor", "zillow"}
    /\ max_total_arg \in (-1)..MaxTotalBound
    /\ max_total = OrDefault(max_total_arg, DefaultMaxTotal)
    /\ max_per_search \in 1..MaxPerBound
    /\ pc = "seeds" /\ seedIdx = 1 /\ queue = <<>> /\ idx = 1 /\ leads = <<>>
    /\ exposed = {} /\ served = <<>> /\ seedLog = <<>> /\ tasks = <<>>

NextRun ==
    \/ realtor_seed
    \/ realtor_listing
    \/ realtor_return
    \/ zillow_seed
    \/ zillow_listing
    \/ zillow_return

Spec == InitRun /\ [][NextRun]_vars

\* ------------------------------------------------- the record extractors
\* Values of a field.  Missing: the key is not in the dict; NoneV: None (what
\* obj.get gives for an absent key too); "": the empty string; "ld" a non-empty
\* value of the structured data, "dom" a non-empty value of the DOM.
Missing == "<missing>"

NoneV == "<None>"

\* bool(v)
Truthy(v) == v \notin {Missing, NoneV, ""}

\* a or b
PyOr(a, b) == IF Truthy(a) THEN a ELSE b

LdValues == {NoneV, "", "ld"}

DomValues == {NoneV, "", "dom"}

\* dict.setdefault(f, v)
SetDefault(rec, f, v) == IF rec[f] = Missing THEN [rec EXCEPT ![f] = v] ELSE rec

\* A listing page: its JSON-LD objects in page order, and what the DOM holds.
ListingPage(objs, dom) == [objs |-> objs, dom |-> dom]

\* realtor: the fields of the model (city, region, postal_code follow address;
\* agent_telephone and brokerage follow agent_name).
RealtorFields == {"address", "price", "agent_name", "agent_email"}

\* realtor line 321: the dict before any field is set.
RealtorEmpty == [f \in RealtorFields |-> Missing]

\* The JSON-LD objects of a realtor listing page: a residence with
\* address.streetAddress and offers.price, an agent with name and email, an
\* offer with price.
RealtorObj(type, name, email, street, price) ==
    [type |-> type, name |-> name, email |-> email, street |-> street, price |-> price]

RealtorObjs ==
    {RealtorObj("residence", NoneV, NoneV, st, pr) : st \in LdValues, pr \in LdValues}
    \cup {RealtorObj("realestateagent", n, e, NoneV, NoneV) : n \in LdValues, e \in LdValues}
    \cup {RealtorObj("offer", NoneV, NoneV, NoneV, pr) : pr \in LdValues}

\* realtor lines 329-361: one object of the loop.
RealtorLdStep(rec, obj) ==
    CASE obj.type = "residence" ->
            LET r1 == IF Truthy(obj.street) THEN SetDefault(rec, "address", obj.street) ELSE rec
            IN  IF Truthy(obj.price) THEN SetDefault(r1, "price", obj.price) ELSE r1
      [] obj.type = "realestateagent" ->
            SetDefault(SetDefault(rec, "agent_name", obj.name), "agent_email", obj.email)
      [] obj.type = "offer" ->
            IF obj.price # NoneV THEN SetDefault(rec, "price", obj.price) ELSE rec

\* realtor lines 324-364: the loop over the JSON-LD objects from object i on.
RECURSIVE RealtorLd(_, _, _)
RealtorLd(objs, i, rec) ==
    IF i > Len(objs) THEN rec
    ELSE RealtorLd(objs, i + 1, RealtorLdStep(rec, objs[i]))

\* realtor lines 367-397: the DOM fallback; el.get_text(strip=True) must be
\* non-empty, and a key the JSON-LD pass has set is left alone.
RealtorDomField(rec, f, v) ==
    IF rec[f] = Missing /\ Truthy(v) THEN [rec EXCEPT ![f] = v] ELSE rec

RealtorDom(rec, dom) ==
    RealtorDomField(
        RealtorDomField(
            RealtorDomField(
                RealtorDomField(rec, "address", dom.address),
                "price", dom.price),
            "agent_name", dom.name),
        "agent_email", dom.email)

\* realtor lines 321-403: the fields of the returned dict.
realtor_extract_fields(page) == RealtorDom(RealtorLd(page.objs, 1, RealtorEmpty), page.dom)

RealtorDoms ==
    [address : DomValues, price : DomValues, name : DomValues, email : {NoneV, "dom"}]

\* zillow: the fields of the model (brokerage follows name; last_sale is
\* never empty when set).
ZillowFields == {"name", "city", "email"}

\* zillow lines 364-368.
ZillowEmpty == [f \in ZillowFields |-> NoneV]

\* The JSON-LD objects of a zillow listing page: an agent with name and email,
\* an object with address.addressLocality and address.addressRegion, and an
\* object whose @type is no string.
ZillowObj(type, name, email, locality, region) ==
    [type |-> type, name |-> name, email |-> email, locality |-> locality, region |-> region]

ZillowObjs ==
    {ZillowObj("realestateagent", n, e, NoneV, NoneV) : n \in LdValues, e \in LdValues}
    \cup {ZillowObj("place", NoneV, NoneV, l, r) : l \in LdValues, r \in LdValues}
    \cup {ZillowObj("badtype", NoneV, NoneV, NoneV, NoneV)}

\* zillow lines 386-402: one object of the loop.
ZillowLdStep(rec, obj) ==
    CASE obj.type = "realestateagent" ->
            [rec EXCEPT !["name"] = PyOr(@, obj.name), !["email"] = PyOr(@, obj.email)]
      [] obj.type = "place" ->
            [rec EXCEPT !["city"] = PyOr(PyOr(@, obj.locality), obj.region)]

\* zillow lines 383-402 from object i on: the fields, and whether .lower() on
\* an @type that is no string raised (caught at line 556).
RECURSIVE ZillowLd(_, _, _)
ZillowLd(objs, i, rec) ==
    IF i > Len(objs) THEN [rec |-> rec, raised |-> FALSE]
    ELSE IF objs[i].type = "badtype" THEN [rec |-> rec, raised |-> TRUE]
    ELSE ZillowLd(objs, i + 1, ZillowLdStep(rec, objs[i]))

\* zillow lines 405-431: a selector fallback, taken when the field is falsy.
ZillowDomField(rec, f, v) ==
    IF ~Truthy(rec[f]) /\ Truthy(v) THEN [rec EXCEPT ![f] = v] ELSE rec

\* zillow lines 464-469: the address of a mailto link, whatever email holds.
ZillowMailto(rec, mailto) ==
    IF mailto # NoneV THEN [rec EXCEPT !["email"] = mailto] ELSE rec

\* zillow lines 405-473: the selector fallbacks and the mailto link of the
\* listing page.
ZillowBeforeAgent(rec, dom) ==
    ZillowMailto(
        ZillowDomField(ZillowDomField(rec, "name", dom.name), "city", dom.city),
        dom.mailto)

\* The agent profile page behind the first agent link of a listing page.  nav:
\* "nolink" (the page has no such link), "open" (context.new_page raises),
\* "timeout" (goto raises), "read" (content raises), "ok".  ld: the email of the
\* RealEstateAgent object of its JSON-LD (Missing: no such object); mailto: the
\* address of its mailto link; regex: the first email-shaped token of its text.
AgentPage(nav, ld, mailto, regex) ==
    [nav |-> nav, ld |-> ld, mailto |-> mailto, regex |-> regex]

NoProfile == AgentPage("nolink", Missing, Missing, Missing)

AgentPages ==
    {AgentPage(nav, Missing, Missing, Missing) : nav \in {"open", "timeout", "read"}}
    \cup {AgentPage("ok", ld, m, re) : ld \in {Missing, NoneV, "agent-ld"},
                                       m \in {Missing, "agent-mailto"},
                                       re \in {Missing, "agent-regex"}}

\* zillow lines 475 and 500: the agent page is opened when email is falsy
\* after the mailto step and the listing page has an agent link.
ZillowFollowsAgent(rec, prof) == ~Truthy(rec["email"]) /\ prof.nav # "nolink"

\* email = email or v, where the page has a value v to offer.
ZillowOr(a, v) == IF v = Missing THEN a ELSE PyOr(a, v)

\* An agent page whose failure leaves _extract_listing_data through the
\* handler of line 556.
ZillowAgentPage_Propagates(rec, prof) ==
    IF prof.nav # "ok" THEN [rec |-> rec, raised |-> TRUE]
    ELSE [rec |-> ZillowDomField(
                      [rec EXCEPT !["email"] = ZillowOr(ZillowOr(@, prof.ld), prof.mailto)],
                      "email", prof.regex),
          raised |-> FALSE]

\* zillow lines 500-542: the agent page is opened and read; JSON-LD, mailto
\* and regex of its content in turn.  An exception of new_page, goto or
\* content ends at the except of line 541, so none is raised further.
ZillowAgentPage(rec, prof) ==
    IF prof.nav # "ok" THEN [rec |-> rec, raised |-> FALSE]
    ELSE [rec |-> ZillowDomField(
                      [rec EXCEPT !["email"] = ZillowOr(ZillowOr(@, prof.ld), prof.mailto)],
                      "email", prof.regex),
          raised |-> FALSE]

\* zillow lines 405-554: the DOM steps in the order of the code: selectors,
\* mailto of the listing page, agent page, regex of the listing page.
ZillowDom(rec, dom) ==
    LET r1 == ZillowBeforeAgent(rec, dom)
        a == IF ZillowFollowsAgent(r1, dom.profile)
             THEN ZillowAgentPage(r1, dom.profile)
             ELSE [rec |-> r1, raised |-> FALSE]
    IN  IF a.raised THEN a.rec ELSE ZillowDomField(a.rec, "email", dom.email)

\* zillow lines 364-568: the fields of the returned dict.
zillow_extract_fields(page) ==
    LET ld == ZillowLd(page.objs, 1, ZillowEmpty)
    IN  IF ld.raised THEN ld.rec ELSE ZillowDom(ld.rec, page.dom)

\* zillow line 504: the agent pages one call opens.
ZillowSecondary(page) ==
    LET ld == ZillowLd(page.objs, 1, ZillowEmpty)
    IN  IF ~ld.raised /\ ZillowFollowsAgent(ZillowBeforeAgent(ld.rec, page.dom), page.dom.profile)
        THEN 1 ELSE 0

\* The DOM of a listing page without a link to an agent profile.
ZillowDoms ==
    [name : DomValues, city : DomValues, mailto : DomValues, email : {NoneV, "dom"},
     profile : {NoProfile}]

\* The DOM of a listing page with a link to an agent profile; the JSON-LD of
\* such a page holds agent objects with or without an email.
ZillowProfileDoms ==
    [name : DomValues, city : DomValues, mailto : DomValues, email : {NoneV, "dom"},
     profile : AgentPages]

ZillowAgentObjs == {ZillowObj("realestateagent", NoneV, e, NoneV, NoneV) : e \in LdValues}

\* The record of an extractor with its fields.
WithFields(base, fields) == [url |-> base.url, source |-> base.source, fields |-> fields]

\* One call of realtor extract_listing_data; xpage is the page it parsed.
realtor_extract_call ==
    /\ xpc = "idle" /\ xsite = "realtor"
    /\ \E resp \in fetch_with_retries(DEFAULT_MAX_RETRIES), body \in DetailBodies :
          IF IsRaised(resp)
          THEN xpc' = "raised" /\ xrecord' = NotExtracted /\ xpage' = NoListingPage
          ELSE LET base == extract_listing_data(
                               Href("realtor", "realestateandhomes-detail", 1, FALSE, FALSE),
                               resp, body)
               IN  /\ xpc' = "returned"
                   /\ IF base = NoRecord
                      THEN xrecord' = NoRecord /\ xpage' = NoListingPage
                      ELSE \E objs \in SeqsUpTo(RealtorObjs, MaxObjs), dom \in RealtorDoms :
                              /\ xpage' = ListingPage(objs, dom)
                              /\ xrecord' = WithFields(base,
                                     realtor_extract_fields(ListingPage(objs, dom)))
    /\ UNCHANGED <<xsite, xsecondary, fetchVars, runVars, discVars>>

\* zillow lines 359-568 on an open listing page.
zillow_extract(body, page) ==
    /\ xpage' = page
    /\ xpc' = "returned"
    /\ xrecord' = WithFields(
           _extract_listing_data(Href("zillow", "homedetails", 1, FALSE, FALSE), body),
           zillow_extract_fields(page))
    /\ xsecondary' = ZillowSecondary(page)

\* One call of zillow _extract_listing_data on a page that is open: a page
\* without a link to an agent profile, or one with such a link.
zillow_extract_call ==
    /\ xpc = "idle" /\ xsite = "zillow"
    /\ \E body \in DetailBodies :
          \/ \E objs \in SeqsUpTo(ZillowObjs, MaxObjs), dom \in ZillowDoms :
                zillow_extract(body, ListingPage(objs, dom))
          \/ \E objs \in SeqsUpTo(ZillowAgentObjs, MaxObjs), dom \in ZillowProfileDoms :
                zillow_extract(body, ListingPage(objs, dom))
    /\ UNCHANGED <<xsite, fetchVars, runVars, discVars>>

InitExtract ==
    /\ InitIdleFetch /\ InitIdleRun /\ InitIdleDisc
    /\ xpc = "idle" /\ xsite \in {"realtor", "zillow"}
    /\ xpage = NoListingPage /\ xrecord = NotExtracted /\ xsecondary = 0

NextExtract == realtor_extract_call \/ zillow_extract_call

SpecExtract == InitExtract /\ [][NextExtract]_vars

\* ============================================================== claims
\* ---------------------------------------------------------------- fetch
IsServerError(status) == 500 <= status /\ status <= 599

IsClientError(status) == 400 <= status /\ status <= 499 /\ status # 429

AllServerErrors ==
    /\ trace # <<>>
    /\ \A i \in 1..Len(trace) : trace[i].kind = "resp" /\ IsServerError(trace[i].status)

C5_ClientErrorStops ==
    (lastOutcome.kind = "resp" /\ IsClientError(lastOutcome.status)) =>
        /\ fpc = "done"
        /\ fresult = lastOutcome
        /\ lastWait = NoWait
        /\ requests = attempt
        /\ sleeps = requests - 1

C5_Witness ==
    /\ lastOutcome.kind = "resp" /\ lastOutcome.status = 404
    /\ requests = 2 /\ fpc = "done" /\ fresult.status = 404

\* The value, in tenths of a second, of the numeric Retry-After texts.
RetryAfterTenths(text) ==
    CASE text = <<"0">> -> 0
      [] text = <<"2">> -> 20
      [] text = <<"1", ".", "5">> -> 15
      [] text = <<"-", "1">> -> -10

NumericRetryAfter(o) ==
    /\ o.kind = "resp" /\ o.status = 429 /\ o.ra.present
    /\ o.ra.text \in {<<"0">>, <<"2">>, <<"1", ".", "5">>, <<"-", "1">>}

\* C6: after a 429 whose Retry-After header is a number r, the wait is exactly
\* r: no backoff term, no jitter; and for r >= 0 that sleep is made, as one was
\* after every earlier attempt of the call.
C6_RetryAfterExact ==
    NumericRetryAfter(lastOutcome) =>
        /\ lastWait = [kind |-> "num", ds |-> RetryAfterTenths(lastOutcome.ra.text)]
        /\ RetryAfterTenths(lastOutcome.ra.text) >= 0 =>
              (fpc # "raised" /\ sleeps = requests)

C6_Witness ==
    /\ NumericRetryAfter(lastOutcome) /\ lastOutcome.ra.text = <<"2">>
    /\ attempt = 2 /\ lastWait.ds = 20 /\ fpc = "loop" /\ sleeps = 2

\* The last iteration computed a backoff wait: a failure that is retried and
\* carries no numeric Retry-After.
BackoffWaitComputed ==
    /\ lastWait.kind = "num"
    /\ ~NumericRetryAfter(lastOutcome)

\* The part of the last wait that exceeds backoff_base * 2^(attempt - 1).
LastJitter == lastWait.ds - 30 * 2 ^ (attempt - 1)

\* C7 as stated: the jitter lies between 0.5 and 3.0 seconds.
C7_Original == BackoffWaitComputed => (5 <= LastJitter /\ LastJitter <= 30)

\* C7, amended: the wait is backoff_base * 2^(attempt - 1) plus a jitter between
\* 0.5 and 4.0 seconds: at most 2.0 after a network error or timeout, at most
\* 2.5 after a 5xx, between 1.0 and 3.0 after a 429 whose Retry-After is not a
\* number, between 1.0 and 4.0 after a 429 without Retry-After.
C7_BackoffPlusJitter ==
    BackoffWaitComputed =>
        /\ 5 <= LastJitter /\ LastJitter <= 40
        /\ lastOutcome.kind # "resp" => LastJitter <= 20
        /\ (lastOutcome.kind = "resp" /\ IsServerError(lastOutcome.status)) => LastJitter <= 25
        /\ (lastOutcome.kind = "resp" /\ lastOutcome.status = 429) =>
              /\ 10 <= LastJitter
              /\ (lastOutcome.ra.present /\ lastOutcome.ra.text # <<>>) => LastJitter <= 30

C7_Witness ==
    /\ BackoffWaitComputed /\ attempt = 3
    /\ lastOutcome.kind = "resp" /\ lastOutcome.status = 429 /\ ~lastOutcome.ra.present
    /\ lastWait.ds = 120 + 39

\* How a caller can classify a returned value or an outcome.
Classification(o) ==
    IF o.kind \in {"neterr", "timeout"} THEN "NetworkError"
    ELSE IF o.kind # "resp" THEN "Absent"
    ELSE IF o.status = 200 THEN "Success"
    ELSE IF o.status = 429 THEN "RateLimited"
    ELSE IF IsServerError(o.status) THEN "ServerError"
    ELSE "ClientError"

Exhausted ==
    /\ fpc = "done" /\ maxRetries >= 1 /\ requests = maxRetries
    /\ ~(lastOutcome.kind = "resp" /\ lastOutcome.status = 200)

\* C8 as stated: the returned value carries the classification of the last
\* failed attempt.
C8_Original == Exhausted => Classification(fresult) = Classification(lastOutcome)

\* C8, amended: after the last attempt the call returns the response itself when
\* that attempt got a 5xx or another status that is neither 200 nor 429, and
\* None when it got a 429 or a network error or timeout: the caller cannot tell
\* a final rate limit from a final network error.
C8_ExhaustedResult ==
    Exhausted =>
        IF lastOutcome.kind # "resp" \/ lastOutcome.status = 429
        THEN fresult = None
        ELSE fresult = lastOutcome

C8_Witness ==
    /\ Exhausted /\ maxRetries = 2
    /\ lastOutcome.kind = "resp" /\ lastOutcome.status = 429 /\ fresult = None

\* C25 (realtor fetch_with_retries, lines 93-146).  One call issues at most
\* max_retries requests whatever the outcomes are; its attempt counter counts
\* its own requests only, so a call that gives up has had all max_retries of
\* them whatever the call before it used; a timeout is handled as a network
\* error is: a backoff wait of the network-error branch, then the next
\* attempt, or None after the last one.
ExceptionKinds == {o.kind : o \in Exceptions}

C25_OwnBudget ==
    fpc # "idle" =>
        /\ requests <= maxRetries
        /\ attempt = requests
        /\ fpc = "loop" => requests < maxRetries
        /\ (fpc = "done" /\ fresult = None) => requests = maxRetries
        /\ \A i \in 1..Len(trace) :
              trace[i].kind \in ExceptionKinds =>
                  \/ i < Len(trace)
                  \/ fpc = "loop" /\ lastWait \in WaitNetworkError(attempt)
                  \/ fpc = "done" /\ fresult = None /\ lastWait \in WaitNetworkError(attempt)
                  \/ fpc = "raised"

\* A second call that uses its whole budget on a mix of outcomes, a timeout
\* last, after a call that made two requests.
C25_Witness ==
    /\ fpc = "done" /\ fresult = None
    /\ earlier = 2 /\ maxRetries = 3 /\ requests = 3
    /\ trace[1].status = 429 /\ trace[2].kind = "neterr" /\ trace[3].kind = "timeout"

\* C30 (realtor fetch_with_retries, lines 93-146).  A call that has made its
\* last permitted attempt returns without having slept after it: fewer sleeps
\* than requests.
C30_NoSleepAfterLast ==
    (fpc = "done" /\ requests > 0 /\ requests = maxRetries) => sleeps < requests

\* ------------------------------------------------------------ discovery
\* C3: a call with a limit >= 0 returns at most limit URLs.
C3_AtMostLimit == (dpc = "returned" /\ dlimit >= 0) => Len(dresult) <= dlimit

\* The call read the page and the page holds no block phrase.
ReadClean == dpc = "returned" /\ dread /\ dpage.words = {}

\* The URL a link of the page stands for: urljoin(search_url, href) in
\* realtor, _normalize_url(href) in zillow.
Resolved(h) == IF dsite = "realtor" THEN urljoin("realtor", h) ELSE _normalize_url(h)

\* C11: no two URLs of the returned list have the same canonical form (query
\* string stripped, trailing slash removed).
C11_CanonicalUnique ==
    dpc = "returned" =>
        \A i, j \in 1..Len(dresult) :
            i # j => Canonical(dresult[i]) # Canonical(dresult[j])

\* The page holds links in <a href> elements only.
OnlyAnchors == \A i \in 1..Len(dpage.entries) : dpage.entries[i].tag = "anchor"

\* The place of the first link of the page that stands for url u, 0 if none.
FirstPlace(u) ==
    LET at == {i \in 1..Len(dpage.entries) : Canonical(Resolved(dpage.entries[i].href)) = Canonical(u)}
    IN  IF at = {} THEN 0 ELSE CHOOSE i \in at : \A k \in at : i <= k

\* C12: the returned list is in discovery order; for a page whose links are all
\* found by one strategy, that is the order in which they occur on the page.
C12_DiscoveryOrder ==
    (ReadClean /\ OnlyAnchors) =>
        \A i, j \in 1..Len(dresult) :
            i < j => FirstPlace(dresult[i]) < FirstPlace(dresult[j])

\* The page holds one ItemList of distinct detail URLs in canonical form, at
\* most dlimit of them, and nothing else.
OnlyItemList ==
    /\ Len(dpage.entries) <= dlimit
    /\ \A i \in 1..Len(dpage.entries) :
          LET e == dpage.entries[i]
          IN  /\ e.tag = "item" /\ ~e.href.q /\ ~e.href.sl
              /\ IF dsite = "realtor" THEN Contains("/realestateandhomes-detail/", e.href)
                                     ELSE IsZillowListing(e.href)
    /\ \A i, j \in 1..Len(dpage.entries) :
          i # j => Resolved(dpage.entries[i].href) # Resolved(dpage.entries[j].href)

\* C13: for such a page the call returns exactly the URLs of the ItemList,
\* resolved against the seed origin, in the order of the list.
C13_ItemListInOrder ==
    (ReadClean /\ OnlyItemList) =>
        dresult = [i \in 1..Len(dpage.entries) |-> Resolved(dpage.entries[i].href)]

\* C14: two calls that read the same page with the same limit return the same
\* URLs in the same order.
C14_SameTwice ==
    (dpc = "returned" /\ dlimit > 0 /\ dprev.called /\ dprev.read /\ dread /\ dpage.words = {}) =>
        dresult = dprev.result

\* The phrases hold a keyword of the fixed set.
HasKeyword(words) == \E k \in Keywords : InLower(k, words)

\* C19: a search page whose body holds a keyword of the fixed set (in zillow:
\* before and after the reload) is blocked and gives no URL.
C19_KeywordBlocks ==
    (/\ dpc = "returned" /\ dread /\ dlimit > 0
     /\ HasKeyword(dpage.words)
     /\ dsite = "zillow" => HasKeyword(dpage.words2))
        => dresult = <<>>

\* The detail URLs carried by the well-formed JSON-LD objects of the page.
JsonLdDetailUrls ==
    {urljoin("realtor", e.href) :
        e \in {x \in Range(dpage.entries) :
                 /\ x.tag \in {"item", "listing"}
                 /\ Contains("/realestateandhomes-detail/", x.href)}}

\* C20: realtor collects the detail URLs of every well-formed JSON-LD object
\* of the page, whatever other objects the page holds, as long as the limit
\* is not reached.
C20_BadBlockSkippedAlone ==
    (ReadClean /\ dsite = "realtor" /\ Len(dresult) < dlimit)
        => JsonLdDetailUrls \subseteq Range(dresult)

\* C21: with a positive limit, a call never holds more than limit URLs.
C21_NeverHoldsMore == (dpc = "returned" /\ dlimit > 0) => dheld <= dlimit

\* ------------------------------------------------------------ run_scrape
\* C1: with a positive max_total, leads never holds more than max_total
\* records, at any point of a run of either scraper.
C1_CapNeverExceeded == max_total_arg > 0 => Len(leads) <= max_total_arg

C1_Witness ==
    /\ pc = "done" /\ max_total_arg = 1
    /\ Cardinality(exposed) >= 2 /\ Len(leads) = 1

\* Every listing the run has processed was loaded, with a page free of block
\* phrases.
AllListingsClean ==
    \A i \in 1..Len(served) : served[i].fetched /\ served[i].words = {}

\* C2: when the search pages have returned at least max_total distinct URLs and
\* every listing page was loaded and unblocked, the run returns exactly
\* max_total records.
C2_ExactlyCap ==
    (/\ pc = "done" /\ max_total_arg > 0
     /\ Cardinality(exposed) >= max_total_arg
     /\ AllListingsClean)
        => Len(leads) = max_total_arg

C2_Witness ==
    /\ site = "realtor" /\ pc = "done" /\ max_total_arg = 2
    /\ Cardinality(exposed) = 3 /\ AllListingsClean
    /\ Len(served) = 2 /\ Len(leads) = 2

\* C9: realtor run_scrape never raises.
C9_NeverRaises == site = "realtor" => pc # "raised"

\* C10: a listing page whose body holds "captcha" contributes no record.
C10_CaptchaExcluded ==
    \A i \in 1..Len(served) :
        (served[i].fetched /\ InLower("captcha", served[i].words))
            => \A j \in 1..Len(leads) : leads[j].url # served[i].url

\* C16: a run with max_total <= 0 fails at startup: it fetches no seed page and
\* no listing page and does not return normally.
C16_InvalidCapFails ==
    max_total_arg <= 0 => (seedIdx = 1 /\ served = <<>> /\ pc # "done")

\* C18: every listing page that was loaded and is not blocked has exactly one
\* record in leads, carrying its URL and the name of the source.
C18_OneRecordPerPage ==
    \A i \in 1..Len(served) :
        (served[i].fetched /\ ~realtor_listing_blocked(served[i].words)) =>
            /\ Cardinality({j \in 1..Len(leads) : leads[j].url = served[i].url}) = 1
            /\ \A j \in 1..Len(leads) :
                  leads[j].url = served[i].url => leads[j].source = site

C18_Witness ==
    /\ pc = "done" /\ Len(served) = 2 /\ Len(leads) = 1
    /\ served[1].fetched /\ served[1].words = {}
    /\ ~served[2].fetched
    /\ leads[1].url = served[1].url

\* C22: seeds are fetched in the given order, none is fetched once max_total
\* URLs are queued, and the queue never holds more than max_total URLs.
C22_SeedsStopWhenFull ==
    max_total > 0 =>
        /\ \A i \in 1..Len(seedLog) : seedLog[i].seed = i /\ ~seedLog[i].full
        /\ Len(queue) <= max_total

C22_Witness ==
    /\ pc = "done" /\ max_total_arg = 2
    /\ Len(seedLog) = 1 /\ Len(queue) = 2

\* C23: no listing task is started once max_total records are extracted.
C23_NoTaskAfterCap ==
    max_total_arg > 0 => \A i \in 1..Len(tasks) : tasks[i].had < max_total_arg

C23_Witness ==
    /\ site = "zillow" /\ pc = "done" /\ max_total_arg = 1
    /\ Cardinality(exposed) >= 2
    /\ Len(tasks) = 1 /\ Len(leads) = 1

\* C24: the listing tasks started are the queued URLs in order, each once, and
\* the run ends only after every queued URL had its task.
C24_OneTaskPerUrl ==
    max_total > 0 =>
        /\ Len(tasks) <= Len(queue)
        /\ \A i \in 1..Len(tasks) : tasks[i].url = queue[i]
        /\ pc = "done" => Len(tasks) = Len(queue)

C24_Witness ==
    /\ pc = "done" /\ Len(queue) = 2 /\ Len(tasks) = 2
    /\ ~served[1].fetched /\ served[2].fetched
    /\ Len(leads) = 1 /\ leads[1].url = queue[2]

Extracted == xpc = "returned" /\ xrecord.source \in {"realtor", "zillow"}

\* What the structured data alone gave for the fields of the page.
LdPass ==
    IF xsite = "realtor" THEN RealtorLd(xpage.objs, 1, RealtorEmpty)
    ELSE ZillowLd(xpage.objs, 1, ZillowEmpty).rec

\* C15: a field that got a non-empty value from structured data holds that
\* value in the returned record.
C15_StructuredKept ==
    Extracted =>
        \A f \in DOMAIN xrecord.fields :
            Truthy(LdPass[f]) => xrecord.fields[f] = LdPass[f]

\* C17: no field of a returned record is the empty string.
C17_NoEmptyField ==
    Extracted => \A f \in DOMAIN xrecord.fields : xrecord.fields[f] # ""

\* What the DOM of the page holds for field f of a realtor record.
RealtorDomOf(f) ==
    CASE f = "address" -> xpage.dom.address
      [] f = "price" -> xpage.dom.price
      [] f = "agent_name" -> xpage.dom.name
      [] f = "agent_email" -> xpage.dom.email

\* C26 (realtor extract_listing_data): a field without a value after the
\* structured-data pass (not set, or set to None by an agent object without
\* that key) gets the non-empty text its DOM selectors yield.
C26_FallbackTried ==
    (Extracted /\ xsite = "realtor") =>
        \A f \in RealtorFields :
            (LdPass[f] \in {Missing, NoneV} /\ Truthy(RealtorDomOf(f))) =>
                xrecord.fields[f] = RealtorDomOf(f)

\* The JSON-LD pass of the zillow extractor ran through.
ZillowLdDone == ~ZillowLd(xpage.objs, 1, ZillowEmpty).raised

\* C27 (zillow _extract_listing_data): the email is the address of the mailto
\* link of the listing page if there is one, else the regex match of the
\* listing page if there is one; the agent profile page is opened at most once,
\* and only when the listing page has neither.
C27_EmailOrder ==
    (Extracted /\ xsite = "zillow" /\ ZillowLdDone) =>
        /\ xsecondary <= 1
        /\ Truthy(xpage.dom.mailto) => xrecord.fields["email"] = xpage.dom.mailto
        /\ (~Truthy(LdPass["email"]) /\ ~Truthy(xpage.dom.mailto) /\ Truthy(xpage.dom.email)) =>
               xrecord.fields["email"] = xpage.dom.email
        /\ xsecondary = 1 => ~Truthy(xpage.dom.mailto) /\ ~Truthy(xpage.dom.email)

\* The agent page could not be opened or read.
AgentPageFailed == xpage.dom.profile.nav \in {"open", "timeout", "read"}

\* C28 (zillow _extract_listing_data): when opening or reading the agent
\* profile page fails, a record is returned all the same, and its fields are
\* those the listing page alone gives (the same page without the agent link).
C28_SecondaryFailureSwallowed ==
    (xsite = "zillow" /\ xpc # "idle" /\ xsecondary = 1 /\ AgentPageFailed) =>
        /\ Extracted
        /\ xrecord.fields =
               zillow_extract_fields(
                   ListingPage(xpage.objs, [xpage.dom EXCEPT !.profile = NoProfile]))

\* The goto of the agent page timed out; the record has the name of the
\* selectors and the email of the regex scan of the listing page.
C28_Witness ==
    /\ Extracted /\ xsite = "zillow" /\ xsecondary = 1
    /\ xpage.dom.profile.nav = "timeout"
    /\ xrecord.fields["name"] = "dom" /\ xrecord.fields["email"] = "dom"

====
